---- MODULE Spec2Model ----
(***************************************************************************)
(* Model of the hyperion-mcp tool registry, the /invoke dispatcher, the    *)
(* streaming controller shim and the StreamingToolResponse framer.         *)
(*                                                                         *)
(* One JavaScript turn (a synchronous run between two suspension points)   *)
(* is one action.  Timestamps and descriptive strings that no decision of  *)
(* the code depends on are left out of the envelopes.                      *)
(***************************************************************************)
EXTENDS Integers, Sequences, FiniteSets, TLC

VARIABLES
  tools,        \* InMemoryToolRegistry.tools: name -> entry (NoTool when absent)
  order,        \* the keys of InMemoryToolRegistry.tools in insertion order
  last,         \* what the latest direct call of a registry method gave its caller
  authEnabled,  \* config.auth.enableAuth, fixed at start-up
  request,      \* the request whose body /invoke is parsing (NoRequest when none)
  inv,          \* one record per invocation: route, shim, writer, framer, handler
  tasks,        \* the array `tasks` of db/memory.ts
  reply         \* how the latest direct call of a task tool handler settled

vars == <<tools, order, last, authEnabled, request, inv, tasks, reply>>

(***************************************************************************)
(* Bounds                                                                  *)
(***************************************************************************)
MaxInv == 2        \* invocations
MaxCalls == 2      \* framer calls made by all handlers together

Inv == 1..MaxInv

(***************************************************************************)
(* Values                                                                  *)
(***************************************************************************)
Null == 0          \* JSON null
Undefined == -1    \* JavaScript undefined (key absent)
IdOf(i) == i       \* the id the caller of invocation i supplies

PermissionLevels == {"public", "protected", "admin"}

\* The handlers of the model catalogue, one per declared arity.
Handlers == {"unaryHandler", "streamHandler", "streamHandlerWithId"}

\* (handler as any).length
HandlerLength(h) ==
  CASE h = "unaryHandler" -> 1
    [] h = "streamHandler" -> 2
    [] h = "streamHandlerWithId" -> 3

\* The registrations the server performs: name -> handler and permission level.
Names == {"echo", "slow", "gen"}

CatalogHandler(n) ==
  CASE n = "echo" -> "unaryHandler"
    [] n = "slow" -> "streamHandler"
    [] n = "gen" -> "streamHandlerWithId"

CatalogLevel(n) ==
  CASE n = "echo" -> "undefined"
    [] n = "slow" -> "protected"
    [] n = "gen" -> "admin"

CatalogCategory(n) ==
  CASE n = "echo" -> "undefined"
    [] n = "slow" -> "demo"
    [] n = "gen" -> "ai"

CatalogTags(n) ==
  CASE n = "echo" -> {}
    [] n = "slow" -> {"streaming", "example"}
    [] n = "gen" -> {"streaming"}

\* ToolRegistrationOptions; "undefined" and the empty set of tags stand for
\* an option that is absent, enabled TRUE for enabled absent or true
CatalogOptions(n, enabledOpt) ==
  [name |-> n, description |-> n, handler |-> CatalogHandler(n),
   permissionLevel |-> CatalogLevel(n), category |-> CatalogCategory(n),
   tags |-> CatalogTags(n), enabled |-> enabledOpt]

\* another registration under the same name: other handler, level, category
OtherOptions(n) ==
  [name |-> n, description |-> "other", handler |-> "unaryHandler",
   permissionLevel |-> "public", category |-> "demo",
   tags |-> {"example"}, enabled |-> TRUE]

Registrations ==
  {CatalogOptions(n, e) : n \in Names, e \in BOOLEAN} \cup {OtherOptions(n) : n \in Names}

Categories == {"demo", "ai"}
Tags == {"streaming", "example"}

NoTool == [present |-> FALSE]

(***************************************************************************)
(* Metadata objects: functions from a set of keys to values.               *)
(***************************************************************************)
EmptyMeta == [k \in {} |-> TRUE]

\* { ...m, ...o }
Spread(m, o) ==
  [k \in (DOMAIN m) \cup (DOMAIN o) |-> IF k \in DOMAIN o THEN o[k] ELSE m[k]]

Has(m, k) == k \in DOMAIN m /\ m[k] = TRUE

\* Metadata a handler may pass to send/complete or return with its result.
Metas == {EmptyMeta, ("partial" :> FALSE) @@ ("final" :> TRUE)}

(***************************************************************************)
(* Errors a handler may throw                                              *)
(***************************************************************************)
InitiatingMsg == <<"Internal server error initiating stream.">>
FailedMsg == <<"Task failed as requested">>
DeniedMsg == <<"Access denied", ": Path is outside the allowed directory.">>
TitleMsg == <<"Title is required">>

Thrown ==
  { [type |-> "ToolExecutionError", message |-> TitleMsg],
    [type |-> "ZodError", message |-> TitleMsg],
    [type |-> "Error", message |-> FailedMsg],
    [type |-> "Error", message |-> DeniedMsg] }

\* what the streaming handlers of the model throw
StreamThrown == {e \in Thrown : e.message # DeniedMsg /\ e.type # "ZodError"}

\* error.message?.includes(part): messages are sequences of fragments
Includes(message, part) == \E k \in 1..Len(message) : message[k] = part

\* Contents: a tag, a number and a text
Content(tag, n, text) == [tag |-> tag, n |-> n, text |-> text]
NoContent == Content("none", 0, <<>>)

\* ToolExecutionError.content: content || [{type: "text", text: message}]
ErrorContent(e) == Content("text", 0, e.message)

\* the content built from a ZodError: message and details
ValidationContent(e) == Content("validation", 0, e.message)

\* what a handler returns, and the k-th thing it passes to its framer
ResultContent == Content("value", 0, <<>>)
ChunkContent(i, k) == Content("chunk", (i - 1) * (MaxCalls + 1) + k, <<>>)

(***************************************************************************)
(* JSON-RPC envelopes                                                      *)
(***************************************************************************)
ResultEnvelope(content, metadata, id) ==
  [kind |-> "result", id |-> id, content |-> content, metadata |-> metadata,
   code |-> 0, message |-> <<>>]

\* createJsonRpcErrorResponse(id, code, message)
createJsonRpcErrorResponse(id, code, message) ==
  [kind |-> "error", id |-> id, content |-> NoContent, metadata |-> EmptyMeta,
   code |-> code, message |-> message]

NoEnvelope ==
  [kind |-> "none", id |-> Undefined, content |-> NoContent, metadata |-> EmptyMeta,
   code |-> 0, message |-> <<>>]

StreamBody ==
  [kind |-> "stream", id |-> Undefined, content |-> NoContent, metadata |-> EmptyMeta,
   code |-> 0, message |-> <<>>]

IsFinal(e) == e.kind = "result" /\ Has(e.metadata, "final")
IsErrorEnvelope(e) == e.kind = "error"

(***************************************************************************)
(* Registry: InMemoryToolRegistry                                          *)
(***************************************************************************)
\* an entry that is enabled whatever the options say
NewEntryAlwaysEnabled(options) ==
  [present |-> TRUE,
   handler |-> options.handler,
   description |-> options.description,
   enabled |-> TRUE,
   permissionLevel |-> IF options.permissionLevel = "undefined"
                         THEN "public" ELSE options.permissionLevel,
   category |-> options.category,
   tags |-> options.tags]

\* register(options): the entry stored on success
NewEntry(options) ==
  [present |-> TRUE,
   handler |-> options.handler,
   description |-> options.description,
   enabled |-> (options.enabled # FALSE),
   permissionLevel |-> IF options.permissionLevel = "undefined"
                         THEN "public" ELSE options.permissionLevel,
   category |-> options.category,
   tags |-> options.tags]

\* Map.set and Map.delete on the order of the keys
mapSet(name) ==
  IF \E k \in 1..Len(order) : order[k] = name THEN order ELSE Append(order, name)

mapDelete(name) == SelectSeq(order, LAMBDA x : x # name)

\* register replacing an entry that is already there
registerOverwriting(options) ==
  [tools EXCEPT ![options.name] = NewEntry(options)]

register(options) ==
  IF tools[options.name].present
    THEN tools
    ELSE [tools EXCEPT ![options.name] = NewEntry(options)]

\* what the calls give their caller: register throws or returns nothing, the
\* others return a boolean
registerResult(options) ==
  IF tools[options.name].present THEN "threw" ELSE "void"

registerOrder(options) ==
  IF tools[options.name].present THEN order ELSE mapSet(options.name)

unregisterResult(name) == IF tools[name].present THEN "true" ELSE "false"

enableToolResult(name) == IF tools[name].present THEN "true" ELSE "false"

disableToolResult(name) == IF tools[name].present THEN "true" ELSE "false"

\* unregister leaving a disabled entry where it is
unregisterEnabledOnly(name) ==
  IF tools[name].present /\ tools[name].enabled
    THEN [tools EXCEPT ![name] = NoTool] ELSE tools

unregister(name) == [tools EXCEPT ![name] = NoTool]

\* enableTool giving the entry the default permission level
enableToolAsPublic(name) ==
  IF tools[name].present
    THEN [tools EXCEPT ![name].enabled = TRUE, ![name].permissionLevel = "public"]
    ELSE tools

enableTool(name) ==
  IF tools[name].present THEN [tools EXCEPT ![name].enabled = TRUE] ELSE tools

\* disableTool removing the entry
disableToolRemoving(name) == [tools EXCEPT ![name] = NoTool]

disableTool(name) ==
  IF tools[name].present THEN [tools EXCEPT ![name].enabled = FALSE] ELSE tools

\* isToolRegistered not looking at the enabled flag
isToolRegisteredIgnoringEnabled(name) == tools[name].present

isToolRegistered(name) == tools[name].present /\ tools[name].enabled

\* getToolHandler not looking at the enabled flag
getToolHandlerIgnoringEnabled(name) ==
  IF tools[name].present THEN tools[name].handler ELSE "none"

\* undefined is modelled by "none"
getToolHandler(name) ==
  IF tools[name].present /\ tools[name].enabled THEN tools[name].handler ELSE "none"

\* the MCPTool object built from an entry: no metadata key
Definition(name) ==
  [present |-> TRUE, name |-> name,
   description |-> tools[name].description,
   permissionLevel |-> tools[name].permissionLevel,
   category |-> tools[name].category,
   tags |-> tools[name].tags]

getToolDefinition(name) ==
  IF ~tools[name].present \/ ~tools[name].enabled
    THEN [present |-> FALSE]
    ELSE Definition(name)

\* the enumerations: the entries in insertion order, the enabled ones kept
Definitions(names) == [k \in 1..Len(names) |-> Definition(names[k])]

getAllTools == Definitions(SelectSeq(order, LAMBDA n : tools[n].enabled))

getToolsByPermission(permissionLevel) ==
  Definitions(SelectSeq(order,
    LAMBDA n : tools[n].enabled /\ tools[n].permissionLevel = permissionLevel))

getToolsByCategory(category) ==
  Definitions(SelectSeq(order,
    LAMBDA n : tools[n].enabled /\ tools[n].category = category))

getToolsByTag(tag) ==
  Definitions(SelectSeq(order,
    LAMBDA n : tools[n].enabled /\ tag \in tools[n].tags))

(***************************************************************************)
(* Authorization: AuthService.hasPermission                                *)
(***************************************************************************)
\* client is "none" for null, otherwise the client's permission level
Callers == {"none"} \cup PermissionLevels

\* hasPermission letting a protected client use protected tools only
hasPermissionSameLevel(client, requiredLevel) ==
  IF client = "none" THEN FALSE
  ELSE IF client = "admin" THEN TRUE
  ELSE client = requiredLevel

hasPermission(client, requiredLevel) ==
  IF client = "none" THEN FALSE
  ELSE IF client = "admin" THEN TRUE
  ELSE IF client = "protected"
    THEN requiredLevel = "protected" \/ requiredLevel = "public"
  ELSE IF client = "public" THEN requiredLevel = "public"
  ELSE FALSE

\* tool.metadata?.permissionLevel || "public"
RequiredPermission(tool) ==
  IF "metadata" \in DOMAIN tool /\ "permissionLevel" \in DOMAIN tool.metadata
    THEN tool.metadata.permissionLevel
    ELSE "public"

(***************************************************************************)
(* Requests: method, params.stream, the kind of id, whether the parameters *)
(* satisfy the schema the tool declares, and the auth context set by the   *)
(* authentication middleware ("none": not authenticated, or no middleware) *)
(***************************************************************************)
\* the authentication middleware: the auth context it sets from what
\* authService.authenticate gave for the credentials ("none" for null), and
\* whether it passes the request on

\* the authentication middleware: it always calls next()
authentication(client) ==
  [isAuthenticated |-> client # "none", permissions |-> client, next |-> TRUE]

NoRequest == [method |-> "none"]

\* the params of a request: items (0 when absent) and fail for slow_task;
\* the other handlers of the model do not read their params
NoParams == [items |-> Undefined, fail |-> FALSE]

Requests ==
  [method : Names, stream : BOOLEAN, id : {"supplied", "null", "absent"},
   valid : BOOLEAN, caller : Callers, params : {NoParams}]

(***************************************************************************)
(* One invocation                                                          *)
(***************************************************************************)
NoResponse == [status |-> 0, body |-> NoEnvelope]

IdleInv ==
  [pc |-> "idle",            \* idle, sync (first turn of the handler), async, done
   mode |-> "none",          \* none, unary, stream
   id |-> Undefined,         \* requestId
   handler |-> "none",       \* handler resolved by executeTool
   trace |-> <<>>,           \* route steps taken, in order
   authEvals |-> 0,          \* calls of authService.hasPermission
   handlerCalls |-> 0,       \* calls of the handler
   ended |-> "no",           \* no, returned, rejected, threw
   thrown |-> [type |-> "none", message |-> <<>>],  \* what the handler threw
   response |-> NoResponse,  \* the HTTP response of /invoke
   placeholder |-> FALSE,    \* executeTool returned {status: "streaming"}
   closed |-> FALSE,         \* streamControllerForHandler._closed
   writer |-> "none",        \* none, open, closed, errored
   catchPending |-> FALSE,   \* a rejected write whose catch callback is queued
   dropped |-> 0,            \* enqueue calls that returned at once on _closed
   sink |-> <<>>,            \* chunks that reached the readable side
   hasFramer |-> FALSE,      \* the handler built a StreamingToolResponse
   isComplete |-> FALSE,     \* StreamingToolResponse.isComplete
   jsonRpcId |-> Null,       \* StreamingToolResponse.jsonRpcId
   calls |-> <<>>,           \* send/complete/error calls of the handler, in order
   params |-> NoParams]      \* the params the handler is called with

(***************************************************************************)
(* streamControllerForHandler and the writer behind it                     *)
(***************************************************************************)
\* writer.write(chunk): the chunk reaches the readable side unless the
\* stream is errored or closed, in which case the returned promise rejects
writerWrite(s, chunk) ==
  IF s.writer = "open" THEN [s EXCEPT !.sink = Append(@, chunk)] ELSE s

\* writer.close(), rejections are logged only
writerClose(s) ==
  IF s.writer = "open" THEN [s EXCEPT !.writer = "closed"] ELSE s

\* enqueue putting the chunk in front of what is already queued
enqueueReordering(s, chunk) ==
  IF s.closed THEN [s EXCEPT !.dropped = @ + 1]
  ELSE IF s.writer = "open" THEN [s EXCEPT !.sink = <<chunk>> \o @]
  ELSE [s EXCEPT !.catchPending = TRUE]

\* enqueue: the catch callback of a rejected write sets _closed in a later turn
enqueue(s, chunk) ==
  IF s.closed THEN [s EXCEPT !.dropped = @ + 1]
  ELSE IF s.writer = "open" THEN writerWrite(s, chunk)
  ELSE [s EXCEPT !.catchPending = TRUE]

terminate(s) ==
  IF s.closed THEN s ELSE writerClose([s EXCEPT !.closed = TRUE])

\* streamControllerForHandler.error(err)
controllerError(s, message) ==
  IF s.closed THEN s
  ELSE writerClose(writerWrite([s EXCEPT !.closed = TRUE],
         createJsonRpcErrorResponse(IF s.id = Undefined THEN Null ELSE s.id,
                                    -32000, message)))

(***************************************************************************)
(* StreamingToolResponse                                                   *)
(***************************************************************************)
\* constructor(streamController, jsonRpcId)
NewStreamingToolResponse(s, jsonRpcId) ==
  [s EXCEPT !.hasFramer = TRUE, !.isComplete = FALSE,
            !.jsonRpcId = IF jsonRpcId = Undefined THEN Null ELSE jsonRpcId]

send(s, content, metadata) ==
  IF s.isComplete \/ ~s.hasFramer THEN s
  ELSE enqueue(s, ResultEnvelope(content,
                    Spread(metadata, "partial" :> TRUE), s.jsonRpcId))

\* complete leaving isComplete unset
completeNotMarking(s, finalContent, metadata) ==
  IF s.isComplete \/ ~s.hasFramer THEN s
  ELSE terminate(enqueue(s,
         ResultEnvelope(finalContent,
           Spread(metadata, ("partial" :> FALSE) @@ ("final" :> TRUE)),
           s.jsonRpcId)))

complete(s, finalContent, metadata) ==
  IF s.isComplete \/ ~s.hasFramer THEN s
  ELSE terminate(enqueue([s EXCEPT !.isComplete = TRUE],
         ResultEnvelope(finalContent,
           Spread(metadata, ("partial" :> FALSE) @@ ("final" :> TRUE)),
           s.jsonRpcId)))

error(s, message) ==
  IF s.isComplete \/ ~s.hasFramer THEN s
  ELSE terminate(enqueue([s EXCEPT !.isComplete = TRUE],
         createJsonRpcErrorResponse(s.jsonRpcId, -32000, message)))

(***************************************************************************)
(* What a handler may do when it ends                                      *)
(***************************************************************************)
NoError == [type |-> "none", message |-> <<>>]
NoResult == [content |-> NoContent, metadata |-> EmptyMeta]

HandlerOutcomes ==
  { [threw |-> FALSE, result |-> [content |-> ResultContent, metadata |-> m],
     error |-> NoError] : m \in Metas }
  \cup { [threw |-> TRUE, result |-> NoResult, error |-> e] : e \in Thrown }

(***************************************************************************)
(* executeTool, non-streaming branch: the value it resolves to, or the     *)
(* error it rethrows                                                       *)
(***************************************************************************)
\* executeTool resolving to an empty result whatever the handler threw
executeToolUnarySwallowing(outcome) ==
  IF ~outcome.threw THEN [threw |-> FALSE, result |-> outcome.result, error |-> NoError]
  ELSE [threw |-> FALSE, result |-> NoResult, error |-> NoError]

executeToolUnary(outcome) ==
  IF ~outcome.threw THEN [threw |-> FALSE, result |-> outcome.result, error |-> NoError]
  ELSE IF outcome.error.type = "ToolExecutionError"
    THEN [threw |-> FALSE,
          result |-> [content |-> ErrorContent(outcome.error),
                      metadata |-> "isError" :> TRUE],
          error |-> NoError]
  ELSE IF outcome.error.type = "ZodError"
    THEN [threw |-> FALSE,
          result |-> [content |-> ValidationContent(outcome.error),
                      metadata |-> "isError" :> TRUE],
          error |-> NoError]
  ELSE outcome

\* app.post("/invoke"), non-streaming branch: the response built from what
\* executeTool gave
AccessDeniedMsg == <<"Access Denied", ": Insufficient permissions to use tool.">>
InvalidParamsMsg == <<"Invalid tool parameters.">>

invokeUnaryResponse(r, requestId) ==
  IF ~r.threw
    THEN [status |-> 200,
          body |-> ResultEnvelope(r.result.content, r.result.metadata, requestId)]
  ELSE IF Includes(r.error.message, "Access denied")
    THEN [status |-> 500,
          body |-> createJsonRpcErrorResponse(requestId, -32000, AccessDeniedMsg)]
  ELSE IF r.error.type = "ZodError"
    THEN [status |-> 400,
          body |-> createJsonRpcErrorResponse(requestId, -32602, InvalidParamsMsg)]
  ELSE [status |-> 500,
        body |-> createJsonRpcErrorResponse(requestId, -32603, r.error.message)]

(***************************************************************************)
(* executeTool, streaming branch: what the detached async function does    *)
(* in its first turn                                                       *)
(***************************************************************************)
\* {content: {status: "streaming"}, metadata: {partial: true}}
PlaceholderContent == Content("status", 0, <<"streaming">>)

\* the placeholder written to the sink as well
returnPlaceholderWriting(s) ==
  writerWrite([s EXCEPT !.placeholder = TRUE,
                        !.response = [status |-> 200, body |-> StreamBody]],
              ResultEnvelope(PlaceholderContent, "partial" :> TRUE, Null))

\* the first turn of the detached function is over: executeTool resolves to
\* the placeholder and the route returns the readable side as the response
returnPlaceholder(s) ==
  [s EXCEPT !.placeholder = TRUE,
            !.response = [status |-> 200, body |-> StreamBody]]

\* a streaming-capable handler is called and runs its first turn; the
\* handler of one parameter is awaited at once
executeToolStreaming(s, h) ==
  LET s0 == [s EXCEPT !.mode = "stream", !.writer = "open",
                      !.handlerCalls = @ + 1,
                      !.trace = Append(@, "handler")]
  IN IF HandlerLength(h) > 2
       THEN NewStreamingToolResponse([s0 EXCEPT !.pc = "sync"], s0.id)
     ELSE IF HandlerLength(h) > 1
       THEN NewStreamingToolResponse([s0 EXCEPT !.pc = "sync"], Undefined)
     ELSE returnPlaceholder([s0 EXCEPT !.pc = "async"])

\* the single result written without terminate being called
streamingSingleResultNotClosing(s, outcome) ==
  IF ~outcome.threw
    THEN enqueue(s,
           ResultEnvelope(outcome.result.content,
             Spread(outcome.result.metadata,
                    ("partial" :> FALSE) @@ ("final" :> TRUE)),
             IF s.id = Undefined THEN Null ELSE s.id))
    ELSE controllerError(s, InitiatingMsg)

\* the handler of a non-streaming-capable tool settled
streamingSingleResult(s, outcome) ==
  IF ~outcome.threw
    THEN terminate(enqueue(s,
           ResultEnvelope(outcome.result.content,
             Spread(outcome.result.metadata,
                    ("partial" :> FALSE) @@ ("final" :> TRUE)),
             IF s.id = Undefined THEN Null ELSE s.id)))
    ELSE controllerError(s, InitiatingMsg)

(***************************************************************************)
(* app.post("/invoke"): the turn that follows the parsing of the body      *)
(***************************************************************************)
respond(s, status, body) ==
  [s EXCEPT !.pc = "done", !.response = [status |-> status, body |-> body]]

InvalidRequestMsg == <<"Invalid Request: MCP requires non-null 'id' for requests.">>
MethodNotFoundMsg == <<"Method not found">>
RouteDeniedMsg == <<"Access Denied", ": Insufficient permissions to use tool">>

\* executeTool finds no handler and throws: the route answers -32603, on the
\* stream if the request asked for one
NotFoundMsg == <<"Tool not found or disabled">>
SetupMsg == <<"Server error during streaming setup.">>

executeToolNotFound(s, stream) ==
  IF stream
    THEN writerClose(writerWrite(
           [s EXCEPT !.pc = "done", !.mode = "stream", !.writer = "open",
                     !.response = [status |-> 200, body |-> StreamBody]],
           createJsonRpcErrorResponse(IF s.id = Undefined THEN Null ELSE s.id,
                                      -32603, SetupMsg)))
    ELSE [respond(s, 500, createJsonRpcErrorResponse(s.id, -32603, NotFoundMsg))
            EXCEPT !.mode = "unary"]

\* the authorization block left out
authorizeSkipped(s, method, caller) == [s |-> s, allowed |-> TRUE, status |-> 0]

\* the authorization block (lines 308-368): the invocation after it, and
\* whether the request may go on
authorize(s, method, caller) ==
  IF ~authEnabled THEN [s |-> s, allowed |-> TRUE, status |-> 0]
  ELSE LET tool == getToolDefinition(method)
           s1 == [s EXCEPT !.trace = Append(@, "authorize")]
       IN IF ~tool.present THEN [s |-> s1, allowed |-> FALSE, status |-> 500]
          ELSE [s |-> [s1 EXCEPT !.authEvals = @ + 1],
                allowed |-> hasPermission(caller, RequiredPermission(tool)),
                status |-> 403]

\* the route without its isToolRegistered check
invokeUnchecked(s, method, stream, id, caller) ==
  LET s0 == [s EXCEPT !.id = id]
  IN
  IF id = Null
    THEN respond(s0, 400, createJsonRpcErrorResponse(Null, -32600, InvalidRequestMsg))
  ELSE
    LET a == authorize([s0 EXCEPT !.trace = Append(@, "resolve")], method, caller)
    IN IF ~a.allowed
         THEN IF a.status = 403
                THEN respond(a.s, 403,
                       createJsonRpcErrorResponse(id, -32000, RouteDeniedMsg))
                ELSE respond(a.s, 500,
                       createJsonRpcErrorResponse(id, -32603, <<"Tool definition missing.">>))
         ELSE LET h == getToolHandler(method)
                  s2 == [a.s EXCEPT !.handler = h]
              IN IF h = "none"
                   THEN executeToolNotFound(s2, stream)
                 ELSE IF stream
                   THEN executeToolStreaming(s2, h)
                   ELSE [s2 EXCEPT !.mode = "unary", !.pc = "async",
                                   !.handlerCalls = @ + 1,
                                   !.trace = Append(@, "handler")]

\* the turn of the route that follows the parsing of the body: the check of
\* isToolRegistered, the authorization block and the call of executeTool,
\* whose lookup of the handler comes before its first await
invoke(s, method, stream, id, caller) ==
  LET s0 == [s EXCEPT !.id = id]
  IN
  IF id = Null
    THEN respond(s0, 400, createJsonRpcErrorResponse(Null, -32600, InvalidRequestMsg))
  ELSE IF ~isToolRegistered(method)
    THEN respond([s0 EXCEPT !.trace = Append(@, "resolve")], 404,
                 createJsonRpcErrorResponse(id, -32601, MethodNotFoundMsg))
  ELSE
    LET a == authorize([s0 EXCEPT !.trace = Append(@, "resolve")], method, caller)
    IN IF ~a.allowed
         THEN IF a.status = 403
                THEN respond(a.s, 403,
                       createJsonRpcErrorResponse(id, -32000, RouteDeniedMsg))
                ELSE respond(a.s, 500,
                       createJsonRpcErrorResponse(id, -32603, <<"Tool definition missing.">>))
         ELSE LET h == getToolHandler(method)
                  s2 == [a.s EXCEPT !.handler = h]
              IN IF h = "none"
                   THEN executeToolNotFound(s2, stream)
                 ELSE IF stream
                   THEN executeToolStreaming(s2, h)
                   ELSE [s2 EXCEPT !.mode = "unary", !.pc = "async",
                                   !.handlerCalls = @ + 1,
                                   !.trace = Append(@, "handler")]

(***************************************************************************)
(* The task store (db/memory.ts) and the task tools                        *)
(***************************************************************************)
\* at most MaxTasks tasks are kept in the store
MaxTasks == 4

\* a property of a parameter object: absent, or a string given by its characters
Missing == [present |-> FALSE, chars |-> <<>>]
Str(chars) == [present |-> TRUE, chars |-> chars]

\* JavaScript truthiness of such a property: undefined and "" are falsy
Truthy(v) == v.present /\ v.chars # <<>>

Digits == {"0", "1", "2", "3", "4", "5", "6", "7", "8", "9"}

\* /^\d{4}-\d{2}-\d{2}$/.test(chars)
matchesDate(chars) ==
  /\ Len(chars) = 10
  /\ \A k \in {1, 2, 3, 4, 6, 7, 9, 10} : chars[k] \in Digits
  /\ chars[5] = "-"
  /\ chars[8] = "-"

\* interface Task; description and createdAt are copied and never read
Task(id, title, dueDate, completed) ==
  [id |-> id, title |-> title, dueDate |-> dueDate, completed |-> completed]

NoTask == Task(Missing, Missing, Missing, FALSE)

\* the two tasks the module starts with
InitialTasks ==
  << Task(Str(<<"1">>), Str(<<"t">>), Missing, FALSE),
     Task(Str(<<"2">>), Str(<<"t">>), Missing, TRUE) >>

\* Math.random().toString(36).substring(2, 9): nothing keeps two tasks from
\* getting the same id
NewIds == {Str(<<"a">>), Str(<<"b">>)}

\* the parameter objects the task tools are called with
TaskIds == {Missing, Str(<<>>), Str(<<"1">>), Str(<<"2">>), Str(<<"a">>),
            Str(<<"b">>), Str(<<"z">>)}
Titles == {Missing, Str(<<>>), Str(<<"t">>)}
DueDates ==
  {Missing, Str(<<>>),
   Str(<<"2", "0", "2", "6", "-", "0", "1", "-", "1", "5">>),
   Str(<<"2", "0", "2", "6", "-", "1", "-", "1", "5">>),
   Str(<<"1", "5", "/", "0", "1", "/", "2", "0", "2", "6">>)}
Statuses == {"undefined", "all", "active", "completed", "done"}

NoTaskParams ==
  [id |-> Missing, title |-> Missing, dueDate |-> Missing, status |-> "undefined"]
CompleteTaskParams == {[NoTaskParams EXCEPT !.id = id] : id \in TaskIds}
CreateTaskParams ==
  {[NoTaskParams EXCEPT !.title = t, !.dueDate = d] : t \in Titles, d \in DueDates}
ListTasksParams == {[NoTaskParams EXCEPT !.status = st] : st \in Statuses}

\* tasks.findIndex((task) => task.id === id), counted from 1; 0 for -1
findIndex(id) ==
  IF \E k \in 1..Len(tasks) : tasks[k].id = id
    THEN CHOOSE k \in 1..Len(tasks) :
           /\ tasks[k].id = id
           /\ \A j \in 1..(k - 1) : tasks[j].id # id
    ELSE 0

\* the filter taken the wrong way round
db_listTasksInverted(status) ==
  IF status \in {"undefined", "", "all"}
    THEN tasks
    ELSE SelectSeq(tasks, LAMBDA t : IF status = "completed"
                                       THEN ~t.completed ELSE t.completed)

\* db.listTasks
db_listTasks(status) ==
  IF status \in {"undefined", "", "all"}
    THEN tasks
    ELSE SelectSeq(tasks, LAMBDA t : IF status = "completed"
                                       THEN t.completed ELSE ~t.completed)

\* db.createTask: the store after the push, and the task returned
db_createTask(task, id) ==
  LET newTask == Task(id, task.title, task.dueDate, FALSE)
  IN [tasks |-> Append(tasks, newTask), result |-> newTask]

\* every task of that id completed, not only the one found
db_completeTaskAll(id) ==
  LET index == findIndex(id)
  IN IF index = 0
       THEN [tasks |-> tasks, result |-> NoTask]
       ELSE [tasks |-> [k \in 1..Len(tasks) |->
                          IF tasks[k].id = id
                            THEN [tasks[k] EXCEPT !.completed = TRUE]
                            ELSE tasks[k]],
             result |-> [tasks[index] EXCEPT !.completed = TRUE]]

\* db.completeTask: the store afterwards, and the task returned (NoTask for null)
db_completeTask(id) ==
  LET index == findIndex(id)
  IN IF index = 0
       THEN [tasks |-> tasks, result |-> NoTask]
       ELSE [tasks |-> [tasks EXCEPT ![index].completed = TRUE],
             result |-> [tasks[index] EXCEPT !.completed = TRUE]]

\* no handler called yet
NoReply ==
  [op |-> "none", params |-> NoTaskParams, ended |-> "none", task |-> NoTask,
   list |-> <<>>, count |-> 0, status |-> "none", errorName |-> "none",
   message |-> "none", validationErrors |-> <<>>, dbCalls |-> 0]

\* a handler that resolved, and one that rejected
Resolved(op, params) == [NoReply EXCEPT !.op = op, !.params = params, !.ended = "returned"]
Rejected(op, params, errorName, message) ==
  [NoReply EXCEPT !.op = op, !.params = params, !.ended = "threw",
                  !.errorName = errorName, !.message = message]

\* tools/listTasks.ts
listTasks(params) ==
  LET status == IF params.status = "completed" \/ params.status = "active"
                  THEN params.status ELSE "all"
      found == db_listTasks(status)
  IN [tasks |-> tasks,
      reply |-> [Resolved("list_tasks", params) EXCEPT
                   !.list = found, !.count = Len(found), !.status = status]]

\* tools/completeTask.ts
completeTask(params) ==
  IF ~Truthy(params.id)
    THEN [tasks |-> tasks,
          reply |-> Rejected("complete_task", params, "Error",
                             "Failed to complete task: Task ID is required")]
    ELSE LET r == db_completeTask(params.id)
         IN IF r.result = NoTask
              THEN [tasks |-> r.tasks,
                    reply |-> [Rejected("complete_task", params, "Error",
                                        "Failed to complete task: Task with ID not found")
                                 EXCEPT !.dbCalls = 1]]
              ELSE [tasks |-> r.tasks,
                    reply |-> [Resolved("complete_task", params) EXCEPT
                                 !.task = r.result, !.dbCalls = 1]]

\* tools/createTask.ts; id is what Math.random gives db.createTask
createTask(params, id) ==
  IF ~Truthy(params.title)
    THEN [tasks |-> tasks,
          reply |-> [Rejected("create_task", params, "ToolExecutionError",
                              "Title is required")
                       EXCEPT !.validationErrors = <<"title">>]]
  ELSE IF Truthy(params.dueDate) /\ ~matchesDate(params.dueDate.chars)
    THEN [tasks |-> tasks,
          reply |-> [Rejected("create_task", params, "ToolExecutionError",
                              "Due date must be in YYYY-MM-DD format")
                       EXCEPT !.validationErrors = <<"dueDate">>]]
  ELSE LET r == db_createTask([title |-> params.title, dueDate |-> params.dueDate], id)
       IN [tasks |-> r.tasks,
           reply |-> [Resolved("create_task", params) EXCEPT
                        !.task = r.result, !.dbCalls = 1]]

(***************************************************************************)
(* Initial state: an empty registry, no request received                   *)
(***************************************************************************)
\* no call made yet: a call is recorded with the call made before it
\* what the lookups and getAllTools give on an empty registry
EmptyObservation ==
  [handlers |-> [n \in Names |-> "none"],
   definitions |-> [n \in Names |-> [present |-> FALSE]],
   all |-> <<>>]

NoCall ==
  [op |-> "none", name |-> "none", result |-> "none", seen |-> EmptyObservation,
   prevOp |-> "none", prevName |-> "none", prevResult |-> "none",
   prevSeen |-> EmptyObservation]

Init ==
  /\ tools = [n \in Names |-> NoTool]
  /\ order = <<>>
  /\ last = NoCall
  /\ authEnabled \in BOOLEAN
  /\ request = NoRequest
  /\ inv = [i \in Inv |-> IdleInv]
  /\ tasks = InitialTasks
  /\ reply = NoReply

\* no handler is in the middle of its first, synchronous turn
Quiet == \A j \in Inv : inv[j].pc # "sync"

RECURSIVE SumCalls(_)
SumCalls(S) ==
  IF S = {} THEN 0
  ELSE LET j == CHOOSE x \in S : TRUE IN Len(inv[j].calls) + SumCalls(S \ {j})

TotalCalls == SumCalls(Inv)

Running(i) == inv[i].pc \in {"sync", "async"}

\* the handler holds a StreamingToolResponse it may call
Framing(i) == Running(i) /\ inv[i].mode = "stream" /\ inv[i].hasFramer

(***************************************************************************)
(* Registry operations                                                     *)
(***************************************************************************)
Register(n, enabledOpt) ==
  /\ Quiet
  /\ tools' = register(CatalogOptions(n, enabledOpt))
  /\ order' = registerOrder(CatalogOptions(n, enabledOpt))
  /\ UNCHANGED <<tasks, reply, last, authEnabled, request, inv>>

Unregister(n) ==
  /\ Quiet
  /\ tools' = unregister(n)
  /\ order' = mapDelete(n)
  /\ UNCHANGED <<tasks, reply, last, authEnabled, request, inv>>

EnableTool(n) ==
  /\ Quiet
  /\ tools' = enableTool(n)
  /\ UNCHANGED <<tasks, reply, order, last, authEnabled, request, inv>>

DisableTool(n) ==
  /\ Quiet
  /\ tools' = disableTool(n)
  /\ UNCHANGED <<tasks, reply, order, last, authEnabled, request, inv>>

(***************************************************************************)
(* POST /invoke                                                            *)
(***************************************************************************)
\* a request arrives; its body is read asynchronously
Receive(r) ==
  /\ Quiet
  /\ request = NoRequest
  /\ \E i \in Inv : inv[i].pc = "idle"
  /\ r.caller # "none" => authEnabled
  /\ request' = r
  /\ UNCHANGED <<tasks, reply, tools, order, last, authEnabled, inv>>

\* the route disabling the tool it dispatches to
InvokeDisabling(i) ==
  /\ Quiet
  /\ request # NoRequest
  /\ authEnabled => authentication(request.caller).next
  /\ inv[i].pc = "idle"
  /\ \A j \in Inv : j < i => inv[j].pc # "idle"
  /\ inv' = [inv EXCEPT ![i] =
       invoke([inv[i] EXCEPT !.params = request.params],
              request.method, request.stream,
              IF request.id = "supplied" THEN IdOf(i)
              ELSE IF request.id = "null" THEN Null ELSE Undefined,
              request.caller)]
  /\ request' = NoRequest
  /\ tools' = disableTool(request.method)
  /\ UNCHANGED <<tasks, reply, order, last, authEnabled>>

\* the body has been read: the rest of the route runs in one turn
Invoke(i) ==
  /\ Quiet
  /\ request # NoRequest
  /\ authEnabled => authentication(request.caller).next
  /\ inv[i].pc = "idle"
  /\ \A j \in Inv : j < i => inv[j].pc # "idle"
  /\ inv' = [inv EXCEPT ![i] =
       invoke([inv[i] EXCEPT !.params = request.params],
              request.method, request.stream,
              IF request.id = "supplied" THEN IdOf(i)
              ELSE IF request.id = "null" THEN Null ELSE Undefined,
              request.caller)]
  /\ request' = NoRequest
  /\ UNCHANGED <<tasks, reply, tools, order, last, authEnabled>>

\* no invocation has been received yet
Solo == \A j \in Inv : inv[j].pc = "idle"

\* a request arriving while no other invocation is under way
ReceiveAlone(r) == Solo /\ Receive(r)


(***************************************************************************)
(* Handler steps                                                           *)
(***************************************************************************)
Called(s, op, tag) == [s EXCEPT !.calls = Append(@, [op |-> op, tag |-> tag])]

\* send writing only while the registry still gives out the handler
HandlerSendLookingUp(i, metadata) ==
  /\ Framing(i)
  /\ TotalCalls < MaxCalls
  /\ LET c == ChunkContent(i, Len(inv[i].calls) + 1)
     IN inv' = [inv EXCEPT ![i] =
                 IF \E n \in Names : getToolHandler(n) = inv[i].handler
                   THEN send(Called(inv[i], "send", c), c, metadata)
                   ELSE Called(inv[i], "send", c)]
  /\ UNCHANGED <<tasks, reply, tools, order, last, authEnabled, request>>

HandlerSend(i, metadata) ==
  /\ Framing(i)
  /\ TotalCalls < MaxCalls
  /\ LET c == ChunkContent(i, Len(inv[i].calls) + 1)
     IN inv' = [inv EXCEPT ![i] = send(Called(inv[i], "send", c), c, metadata)]
  /\ UNCHANGED <<tasks, reply, tools, order, last, authEnabled, request>>

\* complete closing the streams of all invocations
HandlerCompleteClosingAll(i, metadata) ==
  /\ Framing(i)
  /\ TotalCalls < MaxCalls
  /\ LET c == ChunkContent(i, Len(inv[i].calls) + 1)
     IN inv' = [j \in Inv |->
                 IF j = i THEN complete(Called(inv[i], "complete", c), c, metadata)
                 ELSE terminate(inv[j])]
  /\ UNCHANGED <<tasks, reply, tools, order, last, authEnabled, request>>

HandlerComplete(i, metadata) ==
  /\ Framing(i)
  /\ TotalCalls < MaxCalls
  /\ LET c == ChunkContent(i, Len(inv[i].calls) + 1)
     IN inv' = [inv EXCEPT ![i] = complete(Called(inv[i], "complete", c), c, metadata)]
  /\ UNCHANGED <<tasks, reply, tools, order, last, authEnabled, request>>

HandlerError(i) ==
  /\ Framing(i)
  /\ TotalCalls < MaxCalls
  /\ inv' = [inv EXCEPT ![i] =
               error(Called(inv[i], "error", Content("error", 0, FailedMsg)), FailedMsg)]
  /\ UNCHANGED <<tasks, reply, tools, order, last, authEnabled, request>>

\* the handler reaches its first await
HandlerAwait(i) ==
  /\ inv[i].pc = "sync"
  /\ inv' = [inv EXCEPT ![i] = returnPlaceholder([inv[i] EXCEPT !.pc = "async"])]
  /\ UNCHANGED <<tasks, reply, tools, order, last, authEnabled, request>>

\* a streaming-capable handler throws before it has returned a promise: the
\* catch block of the detached function runs
HandlerThrow(i, e) ==
  /\ inv[i].pc = "sync"
  /\ inv' = [inv EXCEPT ![i] =
               returnPlaceholder(
                 [controllerError(inv[i], InitiatingMsg)
                    EXCEPT !.pc = "done", !.ended = "threw", !.thrown = e])]
  /\ UNCHANGED <<tasks, reply, tools, order, last, authEnabled, request>>

\* the promise of a streaming-capable handler resolves: nobody awaits it
HandlerReturn(i) ==
  /\ Framing(i)
  /\ inv' = [inv EXCEPT ![i] =
               returnPlaceholder([inv[i] EXCEPT !.pc = "done", !.ended = "returned"])]
  /\ UNCHANGED <<tasks, reply, tools, order, last, authEnabled, request>>

\* the promise of a streaming-capable handler rejects: nobody awaits it
HandlerReject(i, e) ==
  /\ Framing(i)
  /\ inv' = [inv EXCEPT ![i] =
               returnPlaceholder([inv[i] EXCEPT !.pc = "done", !.ended = "rejected",
                                                !.thrown = e])]
  /\ UNCHANGED <<tasks, reply, tools, order, last, authEnabled, request>>

\* an awaited handler settles: non-streaming mode, or a handler of one
\* parameter in streaming mode
HandlerSettle(i, outcome) ==
  /\ inv[i].pc = "async"
  /\ ~inv[i].hasFramer
  /\ Quiet
  /\ LET s == [inv[i] EXCEPT !.pc = "done", !.thrown = outcome.error,
                             !.ended = IF outcome.threw THEN "rejected" ELSE "returned"]
     IN inv' = [inv EXCEPT ![i] =
          IF s.mode = "unary"
            THEN [s EXCEPT !.response =
                     invokeUnaryResponse(executeToolUnary(outcome), s.id)]
            ELSE streamingSingleResult(s, outcome)]
  /\ UNCHANGED <<tasks, reply, tools, order, last, authEnabled, request>>

(***************************************************************************)
(* The sink                                                                *)
(***************************************************************************)
\* the reader goes away: the writable side becomes errored
Disconnect(i) ==
  /\ Quiet
  /\ inv[i].writer = "open"
  /\ inv' = [inv EXCEPT ![i].writer = "errored"]
  /\ UNCHANGED <<tasks, reply, tools, order, last, authEnabled, request>>

\* the catch callback logging the error and leaving _closed as it is
WriteCatchLoggingOnly(i) ==
  /\ Quiet
  /\ inv[i].catchPending
  /\ inv' = [inv EXCEPT ![i].catchPending = FALSE]
  /\ UNCHANGED <<tasks, reply, tools, order, last, authEnabled, request>>

\* the catch callback of a rejected write runs
WriteCatch(i) ==
  /\ Quiet
  /\ inv[i].catchPending
  /\ inv' = [inv EXCEPT ![i].catchPending = FALSE, ![i].closed = TRUE]
  /\ UNCHANGED <<tasks, reply, tools, order, last, authEnabled, request>>

Next ==
  \/ \E n \in Names, e \in {TRUE, FALSE} : Register(n, e)
  \/ \E n \in Names : Unregister(n)
  \/ \E n \in Names : EnableTool(n)
  \/ \E n \in Names : DisableTool(n)
  \/ \E r \in Requests : ReceiveAlone(r)
  \/ \E i \in Inv : Invoke(i)
  \/ \E i \in Inv, m \in Metas : HandlerSend(i, m)
  \/ \E i \in Inv, m \in Metas : HandlerComplete(i, m)
  \/ \E i \in Inv : HandlerError(i)
  \/ \E i \in Inv : HandlerAwait(i)
  \/ \E i \in Inv, e \in StreamThrown : HandlerThrow(i, e)
  \/ \E i \in Inv : HandlerReturn(i)
  \/ \E i \in Inv, e \in StreamThrown : HandlerReject(i, e)
  \/ \E i \in Inv, o \in HandlerOutcomes : HandlerSettle(i, o)
  \/ \E i \in Inv : Disconnect(i)
  \/ \E i \in Inv : WriteCatch(i)

Spec == Init /\ [][Next]_vars

(***************************************************************************)
(* The registry called directly: every call is one action, and its caller  *)
(* sees what it returned or that it threw                                  *)
(***************************************************************************)
\* what a caller can see of the registry: getToolHandler and
\* getToolDefinition of every name, and getAllTools
Observation ==
  [handlers |-> [n \in Names |-> getToolHandler(n)],
   definitions |-> [n \in Names |-> getToolDefinition(n)],
   all |-> getAllTools]

\* a call is recorded with what could be seen before it, and with the call
\* made before it
Returned(op, name, result) ==
  [op |-> op, name |-> name, result |-> result, seen |-> Observation,
   prevOp |-> last.op, prevName |-> last.name, prevResult |-> last.result,
   prevSeen |-> last.seen]

CallRegister(o) ==
  /\ tools' = register(o)
  /\ order' = registerOrder(o)
  /\ last' = Returned("register", o.name, registerResult(o))
  /\ UNCHANGED <<tasks, reply, authEnabled, request, inv>>

CallUnregister(n) ==
  /\ tools' = unregister(n)
  /\ order' = mapDelete(n)
  /\ last' = Returned("unregister", n, unregisterResult(n))
  /\ UNCHANGED <<tasks, reply, authEnabled, request, inv>>

CallEnableTool(n) ==
  /\ tools' = enableTool(n)
  /\ last' = Returned("enableTool", n, enableToolResult(n))
  /\ UNCHANGED <<tasks, reply, order, authEnabled, request, inv>>

CallDisableTool(n) ==
  /\ tools' = disableTool(n)
  /\ last' = Returned("disableTool", n, disableToolResult(n))
  /\ UNCHANGED <<tasks, reply, order, authEnabled, request, inv>>

NextRegistry ==
  \/ \E o \in Registrations : CallRegister(o)
  \/ \E n \in Names : CallUnregister(n)
  \/ \E n \in Names : CallEnableTool(n)
  \/ \E n \in Names : CallDisableTool(n)

SpecRegistry == Init /\ [][NextRegistry]_vars

(***************************************************************************)
(* Concurrent streaming invocations: the server has registered its tools   *)
(* and runs without authorization; requests for streams arrive while       *)
(* earlier invocations are still under way, and every caller keeps reading *)
(***************************************************************************)
InitConcurrent ==
  /\ tools = [n \in Names |-> NewEntry(CatalogOptions(n, TRUE))]
  /\ order = <<"echo", "slow", "gen">>
  /\ last = NoCall
  /\ authEnabled = FALSE
  /\ request = NoRequest
  /\ inv = [i \in Inv |-> IdleInv]
  /\ tasks = InitialTasks
  /\ reply = NoReply

ReceiveStreaming(r) ==
  /\ r.stream
  /\ r.id = "supplied"
  /\ r.valid
  /\ Receive(r)

NextConcurrent ==
  \/ \E r \in Requests : ReceiveStreaming(r)
  \/ \E i \in Inv : Invoke(i)
  \/ \E i \in Inv, m \in Metas : HandlerSend(i, m)
  \/ \E i \in Inv, m \in Metas : HandlerComplete(i, m)
  \/ \E i \in Inv : HandlerError(i)
  \/ \E i \in Inv : HandlerAwait(i)
  \/ \E i \in Inv, e \in StreamThrown : HandlerThrow(i, e)
  \/ \E i \in Inv : HandlerReturn(i)
  \/ \E i \in Inv, e \in StreamThrown : HandlerReject(i, e)
  \/ \E i \in Inv, o \in HandlerOutcomes : HandlerSettle(i, o)

SpecConcurrent == InitConcurrent /\ [][NextConcurrent]_vars

(***************************************************************************)
(* Concurrent streams whose callers may go away: requests for the tool     *)
(* whose handler takes the controller and the id; the handlers send and    *)
(* complete, the readers may disconnect at any time                        *)
(***************************************************************************)
ReceiveFramed(r) ==
  /\ r.method = "gen"
  /\ ReceiveStreaming(r)

NextSinkFailure ==
  \/ \E r \in Requests : ReceiveFramed(r)
  \/ \E i \in Inv : Invoke(i)
  \/ \E i \in Inv : HandlerSend(i, EmptyMeta)
  \/ \E i \in Inv : HandlerComplete(i, EmptyMeta)
  \/ \E i \in Inv : HandlerAwait(i)
  \/ \E i \in Inv : HandlerReturn(i)
  \/ \E i \in Inv : Disconnect(i)
  \/ \E i \in Inv : WriteCatch(i)

SpecSinkFailure == InitConcurrent /\ [][NextSinkFailure]_vars

(***************************************************************************)
(* slow_task (tools/example/slowTask.ts) invoked for a stream              *)
(***************************************************************************)
\* the largest number of items asked for
MaxItems == 3

\* params.items || 5
DefaultItems == 5

HalfwayMsg == <<"Task failed halfway as requested">>

SlowRequests ==
  [method : {"slow"}, stream : {TRUE}, id : {"supplied", "null", "absent"},
   valid : {TRUE}, caller : {"none"},
   params : [items : 0..MaxItems, fail : BOOLEAN]]

\* const items = params.items || 5
Items(s) == IF s.params.items = 0 THEN DefaultItems ELSE s.params.items

\* the contents slow_task passes to its framer
StartedContent(items) == Content("started", items, <<>>)
ProgressContent(processedItems) == Content("progress", processedItems, <<>>)
SummaryContent(total) == Content("summary", total, <<>>)

\* the catch block rethrowing without telling the framer
slowTaskCatchSilent(s) ==
  [s EXCEPT !.pc = "done", !.ended = "rejected",
            !.thrown = [type |-> "Error", message |-> HalfwayMsg]]

\* the catch block: streaming.error(error); throw error
slowTaskCatch(s) ==
  [error(Called(s, "error", Content("error", 0, HalfwayMsg)), HalfwayMsg)
     EXCEPT !.pc = "done", !.ended = "rejected",
            !.thrown = [type |-> "Error", message |-> HalfwayMsg]]

\* the head of the loop with i items processed: fail, wait, or complete
slowTaskLoop(s, i) ==
  IF i < Items(s)
    THEN IF s.params.fail /\ i = Items(s) \div 2
           THEN slowTaskCatch(s)
           ELSE [s EXCEPT !.pc = "async"]
    ELSE [complete(Called(s, "complete", SummaryContent(Items(s))),
                   SummaryContent(Items(s)), "completed" :> TRUE)
            EXCEPT !.pc = "done", !.ended = "returned"]

\* the first turn: the framer is there, "started" is sent, the loop is entered
slowTaskStart(s) ==
  slowTaskLoop(send(Called(s, "send", StartedContent(Items(s))),
                    StartedContent(Items(s)), EmptyMeta), 0)

\* the turn after a delay: one more item is processed and reported
slowTaskStep(s) ==
  LET processedItems == Len(s.calls)
  IN slowTaskLoop(send(Called(s, "send", ProgressContent(processedItems)),
                       ProgressContent(processedItems), EmptyMeta),
                  processedItems)

SlowTasking(i) ==
  /\ inv[i].mode = "stream"
  /\ inv[i].hasFramer
  /\ inv[i].params # NoParams

ReceiveSlowTask(r) == Solo /\ Receive(r)

SlowTaskStart(i) ==
  /\ SlowTasking(i)
  /\ inv[i].pc = "sync"
  /\ inv' = [inv EXCEPT ![i] = returnPlaceholder(slowTaskStart(inv[i]))]
  /\ UNCHANGED <<tasks, reply, tools, order, last, authEnabled, request>>

SlowTaskStep(i) ==
  /\ SlowTasking(i)
  /\ inv[i].pc = "async"
  /\ Quiet
  /\ inv' = [inv EXCEPT ![i] = slowTaskStep(inv[i])]
  /\ UNCHANGED <<tasks, reply, tools, order, last, authEnabled, request>>

NextSlowTask ==
  \/ \E r \in SlowRequests : ReceiveSlowTask(r)
  \/ \E i \in Inv : Invoke(i)
  \/ \E i \in Inv : SlowTaskStart(i)
  \/ \E i \in Inv : SlowTaskStep(i)
  \/ \E i \in Inv : Disconnect(i)
  \/ \E i \in Inv : WriteCatch(i)

SpecSlowTask == InitConcurrent /\ [][NextSlowTask]_vars

(***************************************************************************)
(* The task tools called directly, as their tests call them                *)
(***************************************************************************)
CallListTasks(params) ==
  /\ tasks' = listTasks(params).tasks
  /\ reply' = listTasks(params).reply
  /\ UNCHANGED <<tools, order, last, authEnabled, request, inv>>

CallCompleteTask(params) ==
  /\ tasks' = completeTask(params).tasks
  /\ reply' = completeTask(params).reply
  /\ UNCHANGED <<tools, order, last, authEnabled, request, inv>>

CallCreateTask(params, id) ==
  /\ Len(tasks) < MaxTasks
  /\ tasks' = createTask(params, id).tasks
  /\ reply' = createTask(params, id).reply
  /\ UNCHANGED <<tools, order, last, authEnabled, request, inv>>

NextTasks ==
  \/ \E params \in ListTasksParams : CallListTasks(params)
  \/ \E params \in CompleteTaskParams : CallCompleteTask(params)
  \/ \E params \in CreateTaskParams, id \in NewIds : CallCreateTask(params, id)

SpecTasks == InitConcurrent /\ [][NextTasks]_vars

(***************************************************************************)
(* Properties                                                              *)
(***************************************************************************)
IsPrefix(a, b) == Len(a) <= Len(b) /\ \A k \in 1..Len(a) : a[k] = b[k]

Last(q) == q[Len(q)]

\* a terminal envelope: an error, or a result that is not flagged partial
Terminal(e) == e.kind = "error" \/ (e.kind = "result" /\ ~Has(e.metadata, "partial"))

TerminalCall(c) == c.op \in {"complete", "error"}

\* the handler has called complete or error on its framer
Terminated(s) == \E k \in 1..Len(s.calls) : TerminalCall(s.calls[k])

\* the calls up to and including the first complete or error
Effective(calls) ==
  IF \E k \in 1..Len(calls) : TerminalCall(calls[k])
    THEN SubSeq(calls, 1,
           CHOOSE k \in 1..Len(calls) :
             TerminalCall(calls[k]) /\ \A j \in 1..(k - 1) : ~TerminalCall(calls[j]))
    ELSE calls

\* what identifies an envelope written for a framer call
Tag(e) == IF e.kind = "error" THEN Content("error", 0, e.message) ELSE e.content

FromHandler(e) == ~(e.kind = "error" /\ e.message = InitiatingMsg)

Dispatched(i) == request # NoRequest /\ inv[i].pc = "idle" /\ inv'[i].pc # "idle"

Rank(level) == CASE level = "public" -> 0 [] level = "protected" -> 1 [] level = "admin" -> 2

\* C1: a streaming invocation that the handler terminated by complete or by
\* error has exactly one envelope with final=true on its sink, and that
\* envelope is the last one.
C1_ExactlyOneFinalLast ==
  \A i \in Inv :
    (inv[i].mode = "stream" /\ Terminated(inv[i]) /\ inv[i].writer # "errored") =>
      /\ Cardinality({k \in 1..Len(inv[i].sink) : IsFinal(inv[i].sink[k])}) = 1
      /\ IsFinal(Last(inv[i].sink))

\* C2: once the handler of a streaming invocation has ended, the stream has
\* ended too: the writer is no longer open and, unless the sink failed, the
\* last envelope on the sink is a terminal one.
C2_ForceClosed ==
  \A i \in Inv :
    (inv[i].mode = "stream" /\ inv[i].pc = "done") =>
      /\ inv[i].writer # "open"
      /\ inv[i].writer = "closed" =>
           (Len(inv[i].sink) > 0 /\ Terminal(Last(inv[i].sink)))

\* C3: once complete or error has been called on a framer, the framer stays
\* complete and no later step writes to the sink; the sink never holds more
\* than one terminal envelope, and nothing follows it.
C3_ClosedAbsorbing ==
  /\ [](\A i \in Inv :
          /\ Cardinality({k \in 1..Len(inv[i].sink) : Terminal(inv[i].sink[k])}) <= 1
          /\ \A k \in 1..Len(inv[i].sink) :
               Terminal(inv[i].sink[k]) => k = Len(inv[i].sink))
  /\ [][\A i \in Inv :
          Terminated(inv[i]) =>
            (inv'[i].isComplete /\ inv'[i].sink = inv[i].sink)]_vars

\* C3 witness: a call made after the one that closed the framer, with the
\* terminal envelope on the sink.
C3_Witness ==
  \E i \in Inv :
    /\ \E k \in 1..(Len(inv[i].calls) - 1) : TerminalCall(inv[i].calls[k])
    /\ Len(inv[i].sink) > 0
    /\ Terminal(Last(inv[i].sink))

\* C4: the envelopes a handler's framer calls put on the sink are those of
\* its calls up to the first complete or error, one per call and in call
\* order; if the sink fails they are a prefix of them.
C4_CallOrder ==
  \A i \in Inv :
    inv[i].hasFramer =>
      LET eff == Effective(inv[i].calls)
          exp == [k \in 1..Len(eff) |-> eff[k].tag]
          seen == SelectSeq(inv[i].sink, FromHandler)
          got == [k \in 1..Len(seen) |-> Tag(seen[k])]
      IN /\ IsPrefix(got, exp)
         /\ inv[i].writer # "errored" => got = exp

\* C4 witness: a send followed by a complete, both on the sink.
C4_Witness ==
  \E i \in Inv :
    /\ Len(inv[i].calls) >= 2
    /\ inv[i].calls[1].op = "send"
    /\ inv[i].calls[2].op = "complete"
    /\ Len(inv[i].sink) = 2

\* C5: every envelope produced for a request that supplied an id carries
\* that id: the response of a non-streaming invocation and every envelope
\* on the sink of a streaming one.
C5_EchoesRequestId ==
  \A i \in Inv :
    inv[i].id = IdOf(i) =>
      /\ inv[i].response.body.kind \in {"result", "error"} =>
           inv[i].response.body.id = IdOf(i)
      /\ \A k \in 1..Len(inv[i].sink) : inv[i].sink[k].id = IdOf(i)

\* C6: a handler that threw a ToolExecutionError yields, in every mode, a
\* result envelope with isError=true and the error's content, and no
\* protocol error envelope.
C6_ToolErrorIsResult ==
  \A i \in Inv :
    (inv[i].pc = "done" /\ inv[i].thrown.type = "ToolExecutionError") =>
      IF inv[i].mode = "unary"
        THEN /\ inv[i].response.body.kind = "result"
             /\ Has(inv[i].response.body.metadata, "isError")
             /\ inv[i].response.body.content = ErrorContent(inv[i].thrown)
        ELSE inv[i].writer # "errored" =>
             /\ \A k \in 1..Len(inv[i].sink) : inv[i].sink[k].kind = "result"
             /\ \E k \in 1..Len(inv[i].sink) :
                  /\ Has(inv[i].sink[k].metadata, "isError")
                  /\ inv[i].sink[k].content = ErrorContent(inv[i].thrown)

\* C7: in non-streaming mode a handler that threw an exception that is
\* neither a ToolExecutionError nor a schema-validation error yields the
\* protocol error -32603, whatever the message of the exception.
C7_OtherErrorIsInternal ==
  \A i \in Inv :
    (inv[i].mode = "unary" /\ inv[i].pc = "done" /\ inv[i].thrown.type = "Error") =>
      /\ inv[i].response.body.kind = "error"
      /\ inv[i].response.body.code = -32603

\* C8: a request whose parameters violate the declared schema of the tool
\* never reaches the handler and is answered by a protocol error, which is
\* -32602 unless the request was refused before validation.
C8_InvalidParamsRefused ==
  [][\A i \in Inv :
       (Dispatched(i) /\ ~request.valid) =>
         /\ inv'[i].handlerCalls = 0
         /\ inv'[i].response.body.kind = "error"
         /\ inv'[i].response.body.code \in {-32600, -32601, -32000, -32602}]_vars

\* C9: with authorization enabled, a request for a registered tool by an
\* authenticated caller whose level is below the level the tool was
\* registered with is refused with -32000 and the handler is not called; a
\* caller of sufficient level reaches the handler.
C9_LevelEnforced ==
  [][\A i \in Inv :
       (/\ Dispatched(i)
        /\ authEnabled
        /\ request.id # "null"
        /\ request.caller \in PermissionLevels
        /\ isToolRegistered(request.method)) =>
         IF Rank(request.caller) < Rank(tools[request.method].permissionLevel)
           THEN /\ inv'[i].handlerCalls = 0
                /\ inv'[i].response.status = 403
                /\ inv'[i].response.body.code = -32000
           ELSE inv'[i].handlerCalls = 1]_vars

\* C10: the authorization predicate is evaluated at most once in an
\* invocation, after the tool has been resolved and before the handler is
\* called, and with authorization enabled no handler runs without it; a
\* not-found, access-denied or invalid-parameters answer comes with an
\* empty sink.
C10_AuthorizeOnceFirst ==
  \A i \in Inv :
    /\ inv[i].authEvals <= 1
    /\ IsPrefix(inv[i].trace,
                IF authEnabled THEN <<"resolve", "authorize", "handler">>
                               ELSE <<"resolve", "handler">>)
    /\ (authEnabled /\ inv[i].handlerCalls > 0) => inv[i].authEvals = 1
    /\ (/\ inv[i].response.body.kind = "error"
        /\ inv[i].response.body.code \in {-32601, -32000, -32602}) =>
          (inv[i].sink = <<>> /\ inv[i].writer = "none")

\* C10 witness: authorization was evaluated once, then the handler ran and
\* wrote to the sink.
C10_Witness ==
  \E i \in Inv :
    /\ authEnabled
    /\ inv[i].authEvals = 1
    /\ inv[i].handlerCalls = 1
    /\ Len(inv[i].sink) > 0

\* C11: a well-formed request for a tool name that is absent from the
\* registry, or present but disabled, is answered in the same turn with
\* status 404 and the error envelope -32601 carrying the request id; no
\* handler is called and nothing is written to a stream.
C11_MethodNotFound ==
  [][\A i \in Inv :
       (/\ Dispatched(i)
        /\ request.id # "null"
        /\ ~(tools[request.method].present /\ tools[request.method].enabled)) =>
         /\ inv'[i].pc = "done"
         /\ inv'[i].response.status = 404
         /\ inv'[i].response.body.kind = "error"
         /\ inv'[i].response.body.code = -32601
         /\ inv'[i].response.body.id = inv'[i].id
         /\ inv'[i].id = IF request.id = "supplied" THEN IdOf(i) ELSE Undefined
         /\ \A j \in Inv : inv'[j].handlerCalls = inv[j].handlerCalls
         /\ inv'[i].sink = <<>>
         /\ inv'[i].writer = "none"]_vars

\* C11 witness: a request with an id was answered Method not found while a
\* disabled tool is in the registry, and no handler ran.
C11_Witness ==
  \E i \in Inv :
    /\ inv[i].response.body.code = -32601
    /\ inv[i].response.body.id = IdOf(i)
    /\ inv[i].handlerCalls = 0
    /\ \E n \in Names : tools[n].present /\ ~tools[n].enabled

\* C12: a register call for a name that is present, enabled or disabled,
\* throws, and leaves every entry and the order of the entries as they were.
C12_DuplicateRejected ==
  [][\A o \in Registrations :
       (CallRegister(o) /\ tools[o.name].present) =>
         /\ last'.result = "threw"
         /\ \A n \in Names : tools'[n] = tools[n]
         /\ order' = order]_vars

\* C12 witness: a register call has thrown for a name whose entry is
\* disabled and is not the entry the call asked for.
C12_Witness ==
  /\ last.op = "register"
  /\ last.result = "threw"
  /\ tools[last.name].present
  /\ ~tools[last.name].enabled
  /\ tools[last.name].description = "other"

\* C13: for a tool that is present but disabled, getToolHandler,
\* getToolDefinition and isToolRegistered give what they give for a name
\* that was never registered, while unregister would still return true; a
\* disableTool call on a present tool leads to such a state; for a tool that
\* is present and enabled getToolHandler gives its handler.
C13_DisabledLooksAbsent ==
  /\ [](\A n \in Names :
          /\ (tools[n].present /\ ~tools[n].enabled) =>
               /\ getToolHandler(n) = "none"
               /\ getToolDefinition(n) = [present |-> FALSE]
               /\ ~isToolRegistered(n)
               /\ unregisterResult(n) = "true"
               /\ \A m \in Names :
                    ~tools[m].present =>
                      /\ getToolHandler(n) = getToolHandler(m)
                      /\ getToolDefinition(n) = getToolDefinition(m)
                      /\ isToolRegistered(n) = isToolRegistered(m)
                      /\ unregisterResult(m) = "false"
          /\ (tools[n].present /\ tools[n].enabled) =>
               /\ getToolHandler(n) = tools[n].handler
               /\ getToolHandler(n) \in Handlers)
  /\ [][\A n \in Names :
          (CallDisableTool(n) /\ tools[n].present) =>
            (tools'[n].present /\ ~tools'[n].enabled)]_vars

\* C13 witness: disableTool has returned true for a tool that is now
\* disabled, while another name is absent and a third tool is enabled.
C13_Witness ==
  /\ last.op = "disableTool"
  /\ last.result = "true"
  /\ tools[last.name].present /\ ~tools[last.name].enabled
  /\ \E m \in Names : ~tools[m].present
  /\ \E m \in Names : tools[m].present /\ tools[m].enabled

\* C14: getAllTools holds exactly one definition for each name that is
\* present and enabled, and nothing else; the filtered enumerations hold
\* exactly the definitions of getAllTools that match; a new entry is
\* enabled unless its registration asked for enabled = false.
C14_EnumerationExact ==
  /\ [](LET all == getAllTools
            Of(q) == {q[k] : k \in 1..Len(q)}
        IN /\ \A j, k \in 1..Len(all) : all[j].name = all[k].name => j = k
           /\ {all[k].name : k \in 1..Len(all)} =
                {n \in Names : tools[n].present /\ tools[n].enabled}
           /\ \A k \in 1..Len(all) : all[k] = Definition(all[k].name)
           /\ \A c \in Categories :
                getToolsByCategory(c) = SelectSeq(all, LAMBDA d : d.category = c)
           /\ \A t \in Tags :
                getToolsByTag(t) = SelectSeq(all, LAMBDA d : t \in d.tags)
           /\ \A p \in PermissionLevels :
                getToolsByPermission(p) =
                  SelectSeq(all, LAMBDA d : d.permissionLevel = p))
  /\ [][\A o \in Registrations :
          (CallRegister(o) /\ ~tools[o.name].present) =>
            (tools'[o.name].enabled <=> o.enabled # FALSE)]_vars

\* C14 witness: after an unregister, the registry holds an enabled tool, a
\* disabled one, and the enumeration by tag leaves out an enabled tool.
C14_Witness ==
  /\ last.op = "unregister"
  /\ last.result = "true"
  /\ Len(getAllTools) = 1
  /\ Len(order) = 2
  /\ \E t \in Tags : Len(getToolsByTag(t)) = 0

\* C15: an unregister call returns true and removes the entry when the name
\* is present, enabled or disabled, and returns false and changes nothing
\* when it is absent; a register call that follows a successful unregister
\* of the same name succeeds, and the new entry has the handler and the
\* enabled flag of the new registration.
C15_UnregisterFrees ==
  [][/\ \A n \in Names :
          CallUnregister(n) =>
            /\ last'.result = IF tools[n].present THEN "true" ELSE "false"
            /\ ~tools'[n].present
            /\ \A m \in Names \ {n} : tools'[m] = tools[m]
            /\ ~tools[n].present => (tools' = tools /\ order' = order)
            /\ \A k \in 1..Len(order') : order'[k] # n
     /\ \A o \in Registrations :
          (/\ CallRegister(o)
           /\ last.op = "unregister" /\ last.name = o.name /\ last.result = "true") =>
            /\ last'.result = "void"
            /\ tools'[o.name].present
            /\ tools'[o.name].handler = o.handler
            /\ tools'[o.name].enabled = (o.enabled # FALSE)]_vars

\* C15 witness: a disabled tool was unregistered with result true and its
\* name registered again, with another handler and enabled.
C15_Witness ==
  /\ last.op = "register"
  /\ last.result = "void"
  /\ last.prevOp = "unregister"
  /\ last.prevName = last.name
  /\ last.prevResult = "true"
  /\ last.name = "slow"
  /\ tools["slow"].handler = "unaryHandler"
  /\ tools["slow"].enabled

\* C16: enableTool and disableTool on an absent name return false and
\* change nothing; on a present name they return true, set the enabled flag
\* of that entry, and leave its other fields, the other entries and the
\* order of the entries as they were.
C16_ToggleFrame ==
  [][\A n \in Names :
       /\ (CallEnableTool(n) \/ CallDisableTool(n)) =>
            /\ order' = order
            /\ \A m \in Names \ {n} : tools'[m] = tools[m]
            /\ last'.result = IF tools[n].present THEN "true" ELSE "false"
            /\ ~tools[n].present => tools'[n] = NoTool
            /\ tools[n].present =>
                 /\ tools'[n].present
                 /\ tools'[n].handler = tools[n].handler
                 /\ tools'[n].description = tools[n].description
                 /\ tools'[n].permissionLevel = tools[n].permissionLevel
                 /\ tools'[n].category = tools[n].category
                 /\ tools'[n].tags = tools[n].tags
       /\ (CallEnableTool(n) /\ tools[n].present) => tools'[n].enabled
       /\ (CallDisableTool(n) /\ tools[n].present) => ~tools'[n].enabled]_vars

\* C16 witness: a tool was disabled and then enabled, both calls returning
\* true, and it is enabled.
C16_Witness ==
  /\ last.op = "enableTool"
  /\ last.result = "true"
  /\ last.prevOp = "disableTool"
  /\ last.prevName = last.name
  /\ last.prevResult = "true"
  /\ tools[last.name].enabled

Flag(metadata, k, v) == k \in DOMAIN metadata /\ metadata[k] = v

\* C17: in a non-streaming invocation the resolved handler, whatever its
\* arity, is called once and gets no controller; nothing is written to a
\* stream; the response is set once, when the handler settles, and is built
\* from what the handler returned or threw.
C17_UnaryOneResponse ==
  /\ [](\A i \in Inv :
          inv[i].mode = "unary" =>
            /\ inv[i].handlerCalls = 1
            /\ ~inv[i].hasFramer
            /\ inv[i].calls = <<>>
            /\ inv[i].sink = <<>>
            /\ inv[i].writer = "none"
            /\ ~inv[i].placeholder
            /\ inv[i].pc # "done" => inv[i].response = NoResponse
            /\ (inv[i].pc = "done" /\ inv[i].ended = "returned") =>
                 /\ inv[i].response.status = 200
                 /\ inv[i].response.body.kind = "result"
                 /\ inv[i].response.body.content = ResultContent
                 /\ inv[i].response.body.metadata \in Metas
                 /\ inv[i].response.body.id = inv[i].id
            /\ (inv[i].pc = "done" /\ inv[i].ended = "rejected") =>
                 /\ inv[i].response.body.id = inv[i].id
                 /\ \/ /\ inv[i].response.body.kind = "result"
                       /\ Flag(inv[i].response.body.metadata, "isError", TRUE)
                       /\ inv[i].response.body.content.text = inv[i].thrown.message
                    \/ /\ inv[i].response.body.kind = "error"
                       /\ inv[i].response.status = 500)
  /\ [][\A i \in Inv :
          (inv[i].mode = "unary" /\ inv[i].pc = "done") => inv'[i] = inv[i]]_vars

\* C17 witness: a streaming-capable handler called without a stream has
\* returned, and the response carries its result.
C17_Witness ==
  \E i \in Inv :
    /\ inv[i].mode = "unary"
    /\ inv[i].pc = "done"
    /\ inv[i].handler = "streamHandler"
    /\ inv[i].ended = "returned"
    /\ inv[i].response.body.kind = "result"

C19_SendCompleteFlags ==
  \A i \in Inv :
    inv[i].hasFramer =>
      LET eff == Effective(inv[i].calls)
          seen == SelectSeq(inv[i].sink, FromHandler)
      IN \A k \in 1..Len(seen) :
           k <= Len(eff) =>
             /\ eff[k].op = "send" =>
                  /\ Flag(seen[k].metadata, "partial", TRUE)
                  /\ ~Flag(seen[k].metadata, "final", TRUE)
             /\ eff[k].op = "complete" =>
                  /\ Flag(seen[k].metadata, "partial", FALSE)
                  /\ Flag(seen[k].metadata, "final", TRUE)

\* C20: with several streaming invocations under way, a step of one
\* invocation changes nothing of another (its sink, its writer, its shim and
\* its framer stay as they are, also when the step closes the first one's
\* stream); no sink holds an envelope with another invocation's id or
\* content; and each sink holds the envelopes of its own invocation's calls
\* in call order.
C20_InvocationsIndependent ==
  /\ [][\A i, j \in Inv :
          (i # j /\ inv'[i] # inv[i]) => inv'[j] = inv[j]]_vars
  /\ [](\A i \in Inv :
          /\ \A k \in 1..Len(inv[i].sink) :
               /\ inv[i].sink[k].id \in {IdOf(i), Null}
               /\ \A j \in Inv \ {i} :
                    \A c \in 1..Len(inv[j].calls) :
                      inv[j].calls[c].op # "error" =>
                        inv[i].sink[k].content # inv[j].calls[c].tag
          /\ inv[i].hasFramer =>
               LET eff == Effective(inv[i].calls)
                   seen == SelectSeq(inv[i].sink, FromHandler)
               IN [k \in 1..Len(seen) |-> Tag(seen[k])] =
                    [k \in 1..Len(eff) |-> eff[k].tag])

\* C20 witness: two streaming invocations have each written an envelope;
\* the second has completed and its stream is closed, the first is still
\* running with its stream open.
C20_Witness ==
  /\ inv[1].hasFramer /\ inv[2].hasFramer
  /\ Len(inv[1].sink) = 1 /\ Len(inv[2].sink) = 1
  /\ inv[2].isComplete /\ inv[2].writer = "closed"
  /\ ~inv[1].isComplete /\ inv[1].writer = "open" /\ ~inv[1].closed
  /\ Running(1)

\* C21: the writer of a streaming invocation is no longer open once its
\* framer is complete, and once its handler has thrown or rejected.
C21_WriterReleased ==
  \A i \in Inv :
    inv[i].mode = "stream" =>
      /\ inv[i].isComplete => inv[i].writer \in {"closed", "errored"}
      /\ (inv[i].pc = "done" /\ inv[i].ended \in {"threw", "rejected"}) =>
           inv[i].writer \in {"closed", "errored"}

\* C22: a step of an invocation leaves the entries of the registry, their
\* enabled flags and their order as they were, and a step that changes the
\* registry calls no handler and changes no invocation.
C22_RegistryFrame ==
  [][/\ inv' # inv => (tools' = tools /\ order' = order)
     /\ (tools' # tools \/ order' # order) =>
          /\ inv' = inv
          /\ \A i \in Inv : inv'[i].handlerCalls = inv[i].handlerCalls]_vars

\* C22 witness: a handler has run to its end for a tool that has since been
\* removed from the registry, while another tool is still registered.
C22_Witness ==
  \E i \in Inv :
    /\ inv[i].pc = "done"
    /\ inv[i].handlerCalls = 1
    /\ inv[i].handler = "streamHandler"
    /\ ~tools["slow"].present
    /\ tools["echo"].present

\* C23: a request whose id is null or absent is answered with -32600 and
\* reaches neither the lookup of the tool nor a handler.
C23_IdMandatory ==
  [][\A i \in Inv :
       (Dispatched(i) /\ request.id # "supplied") =>
         /\ inv'[i].response.body.kind = "error"
         /\ inv'[i].response.body.code = -32600
         /\ inv'[i].trace = <<>>
         /\ inv'[i].handlerCalls = 0]_vars

\* C24: with authentication enabled, a request whose credentials
\* authenticate no client is stopped by the authentication middleware: the
\* route takes no step for it.
C24_MiddlewareRejects ==
  [][(/\ authEnabled
      /\ request # NoRequest
      /\ request.caller = "none") =>
       inv' = inv]_vars

\* C25: hasPermission is true exactly for a client that is not null and
\* whose level is at least the required level in the order public <
\* protected < admin; the route lets a request through exactly when
\* hasPermission holds for its client and the level it requires.
C25_HasPermissionOrder ==
  /\ [](\A client \in Callers, required \in PermissionLevels :
          hasPermission(client, required) <=>
            (client # "none" /\ Rank(client) >= Rank(required)))
  /\ [][\A i \in Inv :
          (/\ Dispatched(i)
           /\ authEnabled
           /\ request.id # "null"
           /\ isToolRegistered(request.method)) =>
            (inv'[i].handlerCalls = 1 <=>
               hasPermission(request.caller,
                             RequiredPermission(getToolDefinition(request.method))))]_vars

\* C25 witness: the route has evaluated hasPermission and refused the
\* request of a client that is null.
C25_Witness ==
  \E i \in Inv :
    /\ authEnabled
    /\ inv[i].authEvals = 1
    /\ inv[i].handlerCalls = 0
    /\ inv[i].response.status = 403

\* C30: in a streaming invocation executeTool has returned its placeholder,
\* and the route its streaming response, as soon as the first turn of the
\* handler is over, whether or not the handler has finished; the response
\* never becomes an envelope; the placeholder is never on the sink; and the
\* sink of an awaited handler is empty as long as the handler runs.
C30_PlaceholderReturned ==
  \A i \in Inv :
    (inv[i].mode = "stream" /\ inv[i].handler \in Handlers) =>
      /\ inv[i].pc = "sync" => (~inv[i].placeholder /\ inv[i].response = NoResponse)
      /\ inv[i].pc \in {"async", "done"} =>
           /\ inv[i].placeholder
           /\ inv[i].response = [status |-> 200, body |-> StreamBody]
      /\ \A k \in 1..Len(inv[i].sink) :
           /\ inv[i].sink[k].kind \in {"result", "error"}
           /\ inv[i].sink[k].content # PlaceholderContent
      /\ (inv[i].handler = "unaryHandler" /\ inv[i].pc = "async") =>
           inv[i].sink = <<>>

\* C30 witness: the placeholder was returned while the awaited handler was
\* running, and the one envelope of the stream was written afterwards.
C30_Witness ==
  \E i \in Inv :
    /\ inv[i].placeholder
    /\ inv[i].handler = "unaryHandler"
    /\ inv[i].pc = "done"
    /\ inv[i].ended = "returned"
    /\ Len(inv[i].sink) = 1
    /\ inv[i].sink[1].content = ResultContent

\* C27: completeTask(id) on an existing task returns that task completed,
\* sets the completed flag of that task (the first of that id) and changes
\* nothing else in the store; when the task was completed already the call
\* succeeds all the same and the store is the same afterwards.
C27_CompleteTask ==
  [][\A index \in 1..Len(tasks) :
       (/\ reply'.op = "complete_task"
        /\ Truthy(reply'.params.id)
        /\ tasks[index].id = reply'.params.id
        /\ \A j \in 1..(index - 1) : tasks[j].id # reply'.params.id) =>
         /\ reply'.ended = "returned"
         /\ reply'.task = [tasks[index] EXCEPT !.completed = TRUE]
         /\ Len(tasks') = Len(tasks)
         /\ tasks'[index] = [tasks[index] EXCEPT !.completed = TRUE]
         /\ \A k \in 1..Len(tasks) : k # index => tasks'[k] = tasks[k]
         /\ tasks[index].completed => tasks' = tasks]_vars

\* C27 witness: task "2", completed from the start, was completed again while
\* the store holds a task that is not completed and two tasks of one id.
C27_Witness ==
  /\ reply.op = "complete_task"
  /\ reply.ended = "returned"
  /\ reply.task.id = Str(<<"2">>)
  /\ reply.task.completed
  /\ \E k \in 1..Len(tasks) : ~tasks[k].completed
  /\ \E j, k \in 1..Len(tasks) : j # k /\ tasks[j].id = tasks[k].id

\* C28: list_tasks returns, in store order, exactly the tasks that are not
\* completed for status "active", exactly the completed ones for "completed",
\* and every task for any other or no status; count is the number of tasks
\* returned; the store is not changed.
C28_ListTasks ==
  [][reply'.op = "list_tasks" =>
       /\ reply'.ended = "returned"
       /\ tasks' = tasks
       /\ reply'.count = Len(reply'.list)
       /\ reply'.params.status = "active" =>
            reply'.list = SelectSeq(tasks, LAMBDA t : ~t.completed)
       /\ reply'.params.status = "completed" =>
            reply'.list = SelectSeq(tasks, LAMBDA t : t.completed)
       /\ reply'.params.status \notin {"active", "completed"} =>
            reply'.list = tasks]_vars

\* C28 witness: the active tasks were listed, and they are some of the tasks
\* of the store but not all of them.
C28_Witness ==
  /\ reply.op = "list_tasks"
  /\ reply.params.status = "active"
  /\ reply.count >= 2
  /\ reply.count < Len(tasks)

\* C29: create_task without a title, or with a dueDate that is not of the
\* form YYYY-MM-DD, throws a ToolExecutionError with validationErrors, does
\* not call db.createTask and leaves the store as it was; any other
\* create_task appends exactly one task, not completed.
C29_CreateTaskValidated ==
  [][reply'.op = "create_task" =>
       IF \/ ~Truthy(reply'.params.title)
          \/ /\ reply'.params.dueDate.present
             /\ ~matchesDate(reply'.params.dueDate.chars)
         THEN /\ reply'.ended = "threw"
              /\ reply'.errorName = "ToolExecutionError"
              /\ reply'.validationErrors # <<>>
              /\ reply'.dbCalls = 0
              /\ tasks' = tasks
         ELSE /\ reply'.ended = "returned"
              /\ Len(tasks') = Len(tasks) + 1
              /\ \A k \in 1..Len(tasks) : tasks'[k] = tasks[k]
              /\ ~tasks'[Len(tasks')].completed
              /\ reply'.task = tasks'[Len(tasks')]]_vars

\* C26: a streaming slow_task invocation with items = n and fail not set,
\* whose caller keeps reading, has written exactly n + 2 envelopes when its
\* handler is done: "started", then progress 1..n in increasing order, then
\* the final envelope with summary.total = n; the stream is closed and every
\* envelope is a result carrying the request id.
C26_SlowTaskEnvelopes ==
  \A i \in Inv :
    LET n == inv[i].params.items
        sink == inv[i].sink
    IN (/\ SlowTasking(i)
        /\ n >= 1
        /\ ~inv[i].params.fail
        /\ inv[i].pc = "done"
        /\ inv[i].writer # "errored") =>
         /\ Len(sink) = n + 2
         /\ sink[1].content = StartedContent(n)
         /\ Has(sink[1].metadata, "partial") /\ ~Has(sink[1].metadata, "final")
         /\ \A k \in 1..n :
              /\ sink[k + 1].content = ProgressContent(k)
              /\ Has(sink[k + 1].metadata, "partial")
              /\ ~Has(sink[k + 1].metadata, "final")
         /\ sink[n + 2].content = SummaryContent(n)
         /\ Has(sink[n + 2].metadata, "final")
         /\ inv[i].writer = "closed"
         /\ \A k \in 1..Len(sink) :
              /\ sink[k].kind = "result"
              /\ sink[k].id = inv[i].id

\* what a slow_task stream of n items that fails halfway holds in the end
C31_Expected(n, id) ==
  <<ResultEnvelope(StartedContent(n), "partial" :> TRUE, id)>>
  \o [k \in 1..(n \div 2) |->
        ResultEnvelope(ProgressContent(k), "partial" :> TRUE, id)]
  \o <<createJsonRpcErrorResponse(id, -32000, HalfwayMsg)>>

\* C31: a streaming slow_task invocation with items = n and fail = true never
\* has anything on its sink but a prefix of: "started", floor(n/2) progress
\* partials, one JSON-RPC error envelope; no envelope is final; when the
\* handler is done and the caller kept reading, the sink holds exactly that
\* sequence and the stream is closed.
C31_SlowTaskFails ==
  \A i \in Inv :
    LET n == inv[i].params.items
        sink == inv[i].sink
    IN (SlowTasking(i) /\ n >= 1 /\ inv[i].params.fail) =>
         /\ IsPrefix(sink, C31_Expected(n, inv[i].jsonRpcId))
         /\ \A k \in 1..Len(sink) : ~Has(sink[k].metadata, "final")
         /\ (inv[i].pc = "done" /\ inv[i].writer # "errored") =>
              /\ sink = C31_Expected(n, inv[i].jsonRpcId)
              /\ Len(sink) = (n \div 2) + 2
              /\ sink[Len(sink)].kind = "error"
              /\ \A k \in 1..(Len(sink) - 1) : sink[k].kind = "result"
              /\ inv[i].writer = "closed"
              /\ inv[i].closed
              /\ inv[i].isComplete

\* C31 witness: slow_task with items = 3 and fail = true is done: "started",
\* one progress partial and the error envelope were written, the stream is
\* closed.
C31_Witness ==
  \E i \in Inv :
    /\ SlowTasking(i)
    /\ inv[i].params = [items |-> 3, fail |-> TRUE]
    /\ inv[i].pc = "done"
    /\ inv[i].ended = "rejected"
    /\ Len(inv[i].sink) = 3
    /\ inv[i].sink[2].content = ProgressContent(1)
    /\ inv[i].sink[3].kind = "error"
    /\ inv[i].writer = "closed"

\* C32: when the catch callback of a failed write runs, _closed is set; from
\* then on no step of the invocation attempts a write (nothing reaches its
\* sink, no further write is rejected, enqueue returns at once), the handler
\* goes on as before (a call it makes neither ends it nor makes it throw),
\* and a step of one invocation changes no other invocation.
C32_FailedSinkDropped ==
  [][\A i \in Inv :
       /\ (inv[i].catchPending /\ ~inv'[i].catchPending) =>
            (inv'[i].closed /\ inv'[i].writer = "errored")
       /\ (inv[i].closed /\ inv[i].writer = "errored" /\ ~inv[i].catchPending) =>
            /\ inv'[i].sink = inv[i].sink
            /\ ~inv'[i].catchPending
            /\ inv'[i].closed
            /\ inv'[i].writer = "errored"
            /\ Len(inv'[i].calls) > Len(inv[i].calls) =>
                 /\ inv'[i].pc = inv[i].pc
                 /\ inv'[i].ended = inv[i].ended
                 /\ inv'[i].thrown = inv[i].thrown
                 /\ (Last(inv'[i].calls).op = "send" /\ ~inv[i].isComplete) =>
                      inv'[i].dropped = inv[i].dropped + 1
       /\ inv'[i] # inv[i] => \A j \in Inv \ {i} : inv'[j] = inv[j]]_vars

\* C32 witness: a failed write of one invocation was observed and an enqueue
\* made afterwards was dropped, while the handler of another invocation is
\* running with its stream open.
C32_Witness ==
  \E i \in Inv :
    /\ inv[i].dropped > 0
    /\ inv[i].closed
    /\ inv[i].writer = "errored"
    /\ ~inv[i].catchPending
    /\ Len(inv[i].sink) < Len(inv[i].calls)
    /\ \E j \in Inv \ {i} :
         /\ inv[j].writer = "open"
         /\ Framing(j)

\* no tool is registered and enabled: whatever tool an invocation under way
\* was dispatched to has been disabled or unregistered since
C33_Gone == \A n \in Names : ~(tools[n].present /\ tools[n].enabled)

\* C33: a change of the registry changes no invocation; an invocation that
\* has its handler goes on after its tool was disabled or unregistered: every
\* call its handler makes on an open framer still puts its envelope on the
\* sink, complete and error still close the stream, an awaited handler that
\* returns still gets its result delivered; and a request is answered with
\* -32601 exactly when its tool is absent or disabled at the time of lookup.
C33_ResolvedHandlerKept ==
  [][/\ tools' # tools => inv' = inv
     /\ \A i \in Inv :
          /\ (/\ C33_Gone
              /\ Running(i)
              /\ Len(inv'[i].calls) = Len(inv[i].calls) + 1
              /\ inv[i].hasFramer /\ ~inv[i].isComplete
              /\ ~inv[i].closed /\ inv[i].writer = "open") =>
               /\ Len(inv'[i].sink) = Len(inv[i].sink) + 1
               /\ IsPrefix(inv[i].sink, inv'[i].sink)
               /\ Tag(Last(inv'[i].sink)) = Last(inv'[i].calls).tag
               /\ TerminalCall(Last(inv'[i].calls)) =>
                    (inv'[i].writer = "closed" /\ Terminal(Last(inv'[i].sink)))
          /\ (/\ C33_Gone
              /\ inv[i].pc = "async" /\ ~inv[i].hasFramer
              /\ inv'[i].pc = "done" /\ inv'[i].ended = "returned") =>
               IF inv[i].mode = "unary"
                 THEN /\ inv'[i].response.status = 200
                      /\ inv'[i].response.body.kind = "result"
                      /\ inv'[i].response.body.content = ResultContent
                 ELSE /\ inv[i].writer = "open" =>
                        /\ Len(inv'[i].sink) = 1
                        /\ inv'[i].sink[1].content = ResultContent
                        /\ inv'[i].writer = "closed"
          /\ (Dispatched(i) /\ request.id # "null") =>
               (inv'[i].response.body.code = -32601
                  <=> ~(tools[request.method].present /\ tools[request.method].enabled))]_vars

\* C33 witness: no tool is registered and enabled any more, and an invocation
\* dispatched earlier has had its partial and its final envelope delivered
\* and its stream closed.
C33_Witness ==
  /\ C33_Gone
  /\ \E i \in Inv :
       /\ inv[i].mode = "stream"
       /\ inv[i].hasFramer
       /\ inv[i].pc = "done"
       /\ inv[i].ended = "returned"
       /\ Len(inv[i].sink) = 2
       /\ ~Terminal(inv[i].sink[1])
       /\ Terminal(inv[i].sink[2])
       /\ inv[i].writer = "closed"

\* C34: whatever changes of the registry come before or after, no invocation
\* gets into executeTool without a handler: none is in a mode without a
\* handler, no response and no sink carries the -32603 of a failed lookup,
\* and a request whose tool passes the check of isToolRegistered and which is
\* authorized has the handler of that tool called in the same turn.
C34_CheckThenLookupAtomic ==
  /\ [](\A i \in Inv :
          /\ inv[i].mode # "none" => inv[i].handler \in Handlers
          /\ ~(inv[i].response.body.kind = "error"
                 /\ inv[i].response.body.message \in {NotFoundMsg, SetupMsg})
          /\ \A k \in 1..Len(inv[i].sink) :
               ~(inv[i].sink[k].kind = "error" /\ inv[i].sink[k].code = -32603))
  /\ [][\A i \in Inv :
          (/\ Dispatched(i)
           /\ request.id # "null"
           /\ tools[request.method].present /\ tools[request.method].enabled
           /\ authEnabled =>
                hasPermission(request.caller,
                              RequiredPermission(getToolDefinition(request.method)))) =>
            /\ inv'[i].handler = tools[request.method].handler
            /\ inv'[i].handlerCalls = 1
            /\ inv'[i].mode = IF request.stream THEN "stream" ELSE "unary"]_vars

\* C34 witness: a request for a stream passed the check and its handler was
\* called; the tool has been disabled since, while the handler is running.
C34_Witness ==
  \E i \in Inv, n \in Names :
    /\ tools[n].present /\ ~tools[n].enabled
    /\ inv[i].handler = tools[n].handler
    /\ inv[i].mode = "stream"
    /\ inv[i].handlerCalls = 1
    /\ Last(inv[i].trace) = "handler"
    /\ Running(i)

\* C35: when disableTool(name) on a registered (present and enabled) tool
\* is followed at once by enableTool(name), the registry looks as it did
\* before the disable: getToolHandler and getToolDefinition give the same
\* for every name, and getAllTools gives the same definitions in the same
\* order.
C35_DisableEnableRestores ==
  (/\ last.op = "enableTool"
   /\ last.prevOp = "disableTool"
   /\ last.prevName = last.name
   /\ last.prevSeen.handlers[last.name] # "none") =>
    /\ getToolHandler(last.name) = last.prevSeen.handlers[last.name]
    /\ getToolDefinition(last.name) = last.prevSeen.definitions[last.name]
    /\ getAllTools = last.prevSeen.all
    /\ Observation = last.prevSeen
    /\ last.seen.handlers[last.name] = "none"
    /\ last.result = "true" /\ last.prevResult = "true"

\* C35 witness: a protected tool that is not the last of three enabled tools
\* was disabled and enabled again.
C35_Witness ==
  /\ last.op = "enableTool"
  /\ last.prevOp = "disableTool"
  /\ last.prevName = last.name
  /\ last.prevSeen.handlers[last.name] # "none"
  /\ Len(getAllTools) = 3
  /\ getAllTools[3].name # last.name
  /\ tools[last.name].permissionLevel = "protected"
  /\ Len(last.seen.all) = 2

====
